---- MODULE Spec2Model ----
(***************************************************************************)
(* A model of split_csv.py: the CSV splitting tool.  Text values (lines,   *)
(* fields, file names, command line arguments) are sequences of one        *)
(* character strings, so that parsing, matching and formatting are         *)
(* computed character by character, as the program and its libraries do.   *)
(***************************************************************************)
EXTENDS Integers, Sequences, FiniteSets, TLC

\* Python's None, where a text may stand; no text equals it.
None == <<"None">>
\* An attribute that was never assigned: reading it raises AttributeError.
Unset == [assigned |-> FALSE, value |-> 0]
Assigned(v) == [assigned |-> TRUE, value |-> v]
\* No exception ended the run.
NoError == "NoError"

Digits == {"0", "1", "2", "3", "4", "5", "6", "7", "8", "9"}

DigitValue(c) ==
    CASE c = "0" -> 0 [] c = "1" -> 1 [] c = "2" -> 2 [] c = "3" -> 3
      [] c = "4" -> 4 [] c = "5" -> 5 [] c = "6" -> 6 [] c = "7" -> 7
      [] c = "8" -> 8 [] c = "9" -> 9

\* The elements of a sequence, as a set.
Range(s) == {s[i] : i \in 1..Len(s)}

(***************************************************************************)
(* csv.reader fed by the IteratorAdapter.                                  *)
(***************************************************************************)

\* The end-of-line marker the reader feeds itself after the last character
\* of each line it was given.
EOL == "EOL"

\* csv.get_dialect('excel'); the only named dialect the model passes.
excel == [delimiter |-> ",", quotechar |-> "\"", doublequote |-> TRUE]

\* The reader after parse_reset: no field, no fields, at a record start.
parse_reset == [state |-> "START_RECORD", field |-> <<>>, fields |-> <<>>,
                err |-> FALSE]

parse_save_field(r) == [r EXCEPT !.fields = Append(r.fields, r.field),
                                 !.field = <<>>]

parse_add_char(r, c) == [r EXCEPT !.field = Append(r.field, c)]

IsNewline(c) == c = "\n" \/ c = "\r"

\* One step of the reader's state machine on character c (or EOL).
parse_process_char(r, c, d) ==
    LET StartField ==
            IF IsNewline(c) \/ c = EOL
            THEN [parse_save_field(r) EXCEPT
                    !.state = IF c = EOL THEN "START_RECORD" ELSE "EAT_CRNL"]
            ELSE IF c = d.quotechar THEN [r EXCEPT !.state = "IN_QUOTED_FIELD"]
            ELSE IF c = d.delimiter
                 THEN [parse_save_field(r) EXCEPT !.state = "START_FIELD"]
            ELSE [parse_add_char(r, c) EXCEPT !.state = "IN_FIELD"]
    IN
    CASE r.err -> r
      [] ~r.err /\ r.state = "START_RECORD" ->
            IF c = EOL THEN r
            ELSE IF IsNewline(c) THEN [r EXCEPT !.state = "EAT_CRNL"]
            ELSE StartField
      [] ~r.err /\ r.state = "START_FIELD" -> StartField
      [] ~r.err /\ r.state = "IN_FIELD" ->
            IF IsNewline(c) \/ c = EOL
            THEN [parse_save_field(r) EXCEPT
                    !.state = IF c = EOL THEN "START_RECORD" ELSE "EAT_CRNL"]
            ELSE IF c = d.delimiter
                 THEN [parse_save_field(r) EXCEPT !.state = "START_FIELD"]
            ELSE parse_add_char(r, c)
      [] ~r.err /\ r.state = "IN_QUOTED_FIELD" ->
            IF c = EOL THEN r
            ELSE IF c = d.quotechar
                 THEN [r EXCEPT !.state = IF d.doublequote
                                          THEN "QUOTE_IN_QUOTED_FIELD"
                                          ELSE "IN_FIELD"]
            ELSE parse_add_char(r, c)
      [] ~r.err /\ r.state = "QUOTE_IN_QUOTED_FIELD" ->
            IF c = d.quotechar
            THEN [parse_add_char(r, c) EXCEPT !.state = "IN_QUOTED_FIELD"]
            ELSE IF c = d.delimiter
                 THEN [parse_save_field(r) EXCEPT !.state = "START_FIELD"]
            ELSE IF IsNewline(c) \/ c = EOL
                 THEN [parse_save_field(r) EXCEPT
                         !.state = IF c = EOL THEN "START_RECORD"
                                              ELSE "EAT_CRNL"]
            ELSE [parse_add_char(r, c) EXCEPT !.state = "IN_FIELD"]
      [] ~r.err /\ r.state = "EAT_CRNL" ->
            IF IsNewline(c) THEN r
            ELSE IF c = EOL THEN [r EXCEPT !.state = "START_RECORD"]
            ELSE [r EXCEPT !.err = TRUE]

RECURSIVE parse_chars(_, _, _, _)
parse_chars(r, line, i, d) ==
    IF i > Len(line) THEN r
    ELSE parse_chars(parse_process_char(r, line[i], d), line, i + 1, d)

\* The reader consuming one value of its input iterator: every character
\* of the line, then EOL.
parse_line(r, line, d) == parse_process_char(parse_chars(r, line, 1, d), EOL, d)

\* IteratorAdapter.__next__: the value last set, on every call.
IteratorAdapter_next(value) == value

(***************************************************************************)
(* next(self._csv_reader): the reader takes values from the adapter until  *)
(* it is back at a record start.  The adapter hands out the same line each *)
(* time, so the control state after a read is a function of the control    *)
(* state before it: a read that starts and ends in the same state other    *)
(* than START_RECORD repeats for ever ("hang").                            *)
(***************************************************************************)
RECURSIVE reader_loop(_, _, _, _)
reader_loop(r, value, n, d) ==
    LET r1 == parse_line(r, IteratorAdapter_next(value), d) IN
    IF r1.err THEN [kind |-> "error", fields |-> <<>>, reads |-> n]
    ELSE IF r1.state = "START_RECORD"
         THEN [kind |-> "row", fields |-> r1.fields, reads |-> n]
    ELSE IF r1.state = r.state
         THEN [kind |-> "hang", fields |-> <<>>, reads |-> n]
    ELSE reader_loop(r1, value, n + 1, d)

reader_next(value, d) == reader_loop(parse_reset, value, 1, d)

(***************************************************************************)
(* Library functions the program calls, as they act on the model's texts.  *)
(***************************************************************************)

\* int(text): optional sign, then one or more decimal digits; anything else
\* raises ValueError.  (The model's specifiers hold no blanks and no
\* underscores, which int() would also accept.)
RECURSIVE digits_value(_, _, _)
digits_value(s, i, acc) ==
    IF i > Len(s) THEN acc
    ELSE digits_value(s, i + 1, acc * 10 + DigitValue(s[i]))

int(s) ==
    LET signed == Len(s) >= 1 /\ s[1] \in {"-", "+"}
        body == IF signed THEN Tail(s) ELSE s
    IN IF Len(body) >= 1 /\ Range(body) \subseteq Digits
       THEN [ok |-> TRUE,
             value |-> IF signed /\ s[1] = "-"
                       THEN 0 - digits_value(body, 1, 0)
                       ELSE digits_value(body, 1, 0)]
       ELSE [ok |-> FALSE, value |-> 0]

\* list.index(x): the zero-based position of the first element equal to x;
\* ValueError when there is none.
list_index(l, x) ==
    IF \E i \in 1..Len(l) : l[i] = x
    THEN [ok |-> TRUE,
          value |-> (CHOOSE i \in 1..Len(l) :
                        l[i] = x /\ \A j \in 1..(i - 1) : l[j] # x) - 1]
    ELSE [ok |-> FALSE, value |-> 0]

\* An indexing that has an empty text for every position outside the list.
getitem_or_empty(l, i) ==
    IF i >= 0 /\ i < Len(l) THEN [ok |-> TRUE, value |-> l[i + 1]]
    ELSE IF i < 0 /\ i >= 0 - Len(l)
         THEN [ok |-> TRUE, value |-> l[Len(l) + i + 1]]
    ELSE [ok |-> TRUE, value |-> <<>>]

\* l[i] of a Python list: a negative index counts from the end; IndexError
\* outside -len .. len-1.
getitem(l, i) ==
    IF i >= 0 /\ i < Len(l) THEN [ok |-> TRUE, value |-> l[i + 1]]
    ELSE IF i < 0 /\ i >= 0 - Len(l)
         THEN [ok |-> TRUE, value |-> l[Len(l) + i + 1]]
    ELSE [ok |-> FALSE, value |-> <<>>]

\* bool(text), the conversion argparse applies to the value of --date-split:
\* every non-empty string is true.
bool(s) == Len(s) > 0

(***************************************************************************)
(* str.format with one positional argument.  "{{" and "}}" are literal     *)
(* braces, "{}" is the next automatically numbered argument and "{0}" the  *)
(* first argument; numbering styles cannot be mixed, a second "{}" has no  *)
(* argument, and any other use of a brace is an error.  mode is "none",    *)
(* "auto" or "manual".                                                     *)
(***************************************************************************)
RECURSIVE format_from(_, _, _, _, _)
format_from(t, arg, i, mode, acc) ==
    LET Error == [ok |-> FALSE, value |-> <<>>]
        next == IF i < Len(t) THEN t[i + 1] ELSE EOL
    IN
    IF i > Len(t) THEN [ok |-> TRUE, value |-> acc]
    ELSE IF t[i] = "{"
         THEN IF next = "{"
              THEN format_from(t, arg, i + 2, mode, Append(acc, "{"))
              ELSE IF next = "}"
                   THEN IF mode = "none"
                        THEN format_from(t, arg, i + 2, "auto", acc \o arg)
                        ELSE Error
              ELSE IF next = "0" /\ i + 2 <= Len(t) /\ t[i + 2] = "}"
                   THEN IF mode # "auto"
                        THEN format_from(t, arg, i + 3, "manual", acc \o arg)
                        ELSE Error
              ELSE Error
    ELSE IF t[i] = "}"
         THEN IF next = "}"
              THEN format_from(t, arg, i + 2, mode, Append(acc, "}"))
              ELSE Error
    ELSE format_from(t, arg, i + 1, mode, Append(acc, t[i]))

format(t, arg) == format_from(t, arg, 1, "none", <<>>)

\* '{}{{}}.csv'.format(prefix): the prefix, then "{}.csv".
outfile_template(prefix) ==
    format(<<"{", "}", "{", "{", "}", "}", ".", "c", "s", "v">>, prefix).value

(***************************************************************************)
(* _iso_date_re.match(text): four digits, '-', a month 0d or 10..12, '-',  *)
(* a day 0d, 1d, 2d, 30 or 31, at the start of the text.                   *)
(***************************************************************************)
iso_date_re_match(s) ==
    /\ Len(s) >= 10
    /\ \A i \in 1..4 : s[i] \in Digits
    /\ s[5] = "-"
    /\ \/ s[6] = "0" /\ s[7] \in Digits
       \/ s[6] = "1" /\ s[7] \in {"0", "1", "2"}
    /\ s[8] = "-"
    /\ \/ s[9] \in {"0", "1", "2"} /\ s[10] \in Digits
       \/ s[9] = "3" /\ s[10] \in {"0", "1"}

\* '-'.join((year, month)) of a match.
year_month(s) == SubSeq(s, 1, 4) \o <<"-">> \o SubSeq(s, 6, 7)

\* The partition key process() derives from the selected field.
file_key_of(field, date_split) ==
    IF date_split /\ iso_date_re_match(field) THEN year_month(field) ELSE field

(***************************************************************************)
(* csv.Sniffer on a sample of one line.                                    *)
(***************************************************************************)

\* The delimiters the program lets the sniffer choose from.
Delimiters == {",", ";", "\t"}

\* sniffer.sniff(first_line, delimiters=',;\t'): fails ("Could not
\* determine delimiter") when the line holds none of the candidates.  On a
\* line without quote characters the detected dialect has the default quote
\* character and doublequote off.  (The model's first lines hold at most
\* one kind of candidate and no quote character.)
sniff(sample) ==
    IF Range(sample) \cap Delimiters = {}
    THEN [ok |-> FALSE, dialect |-> None]
    ELSE [ok |-> TRUE,
          dialect |-> [delimiter |-> CHOOSE c \in Delimiters : c \in Range(sample),
                       quotechar |-> "\"", doublequote |-> FALSE]]

\* The sniff has_header runs on the sample by itself, with no restriction
\* on the delimiter: it fails only on a sample with no character other
\* than "\n".
has_header_sniff_ok(sample) == Range(sample) \ {"\n"} # {}

\* sniffer.has_header(first_line).  With no second row to compare with,
\* every column of the first row votes for a header, so the answer is TRUE
\* unless the first row has no column at all: a line that is only a
\* carriage return or "\r\n".
has_header(sample) ==
    IF ~has_header_sniff_ok(sample) THEN [ok |-> FALSE, value |-> FALSE]
    ELSE [ok |-> TRUE, value |-> Range(sample) \ {"\r", "\n"} # {}]

(***************************************************************************)
(* The inputs of a run.                                                    *)
(***************************************************************************)

\* The number of lines after the first line of the input file.
MaxRows == 2

HeaderLine == <<"k", ",", "v", "\n">>
BlankCRLF == <<"\r", "\n">>
BlankLF == <<"\n">>
Date15 == <<"2", "0", "2", "1", "-", "0", "7", "-", "1", "5", "\n">>
Date20 == <<"2", "0", "2", "1", "-", "0", "7", "-", "2", "0", "\n">>
\* A line that ends inside a quoted field: "a
OpenQuote == <<"\"", "a", "\n">>
\* A line with a closed quoted field and then an open one: "x","
OpenQuoteAfterField == <<"\"", "x", "\"", ",", "\"", "\n">>

FirstLines == {HeaderLine, BlankCRLF, BlankLF}
DataLines == {HeaderLine, Date15, Date20, OpenQuote, OpenQuoteAfterField,
              BlankLF}

InputFiles ==
    {<<>>} \cup
    {<<first>> \o rows :
        first \in FirstLines,
        rows \in UNION {[1..n -> DataLines] : n \in 0..MaxRows}}

Columns == {<<"k">>, <<"v">>, <<"0">>, <<"-", "1">>, <<"q">>}
DialectOptions == {None, <<"e", "x", "c", "e", "l">>}
DateSplitOptions == {None, <<"t", "r", "u", "e">>, <<"f", "a", "l", "s", "e">>,
                     <<>>}
Prefixes == {<<"o", "_">>}

VARIABLES
    argv,           \* the command line: column, prefix, --dialect, --date-split
    input_file,     \* the lines of the input file
    pc,             \* where the run is
    args,           \* _args, the parsed command line
    pos,            \* the position of input_file, in lines read
    first_line,
    dialect,
    header,
    template,       \* processor._outfile_template
    column_index,   \* processor._column_index
    out_files,      \* processor._out_files: the names that map to a file
    disk,           \* the output files: name -> the texts written, in order
    opened,         \* the names of the files open() returned a handle for
    closed,         \* name -> the number of close() calls on its handle
    header_writes,  \* name -> the number of texts written before the first entry
    error,          \* the exception that ended the run, or NoError
    first_run       \* the output files an earlier, identical run left behind

vars == <<argv, input_file, pc, args, pos, first_line, dialect, header,
          template, column_index, out_files, disk, opened, closed,
          header_writes, error, first_run>>

\* No run came before this one.
no_first_run == [done |-> FALSE, disk |-> <<>>]

Init ==
    /\ argv \in [column : Columns, prefix : Prefixes,
                 dialect : DialectOptions, date_split : DateSplitOptions]
    /\ input_file \in InputFiles
    /\ pc = "Start"
    /\ args = None
    /\ pos = 0
    /\ first_line = <<>>
    /\ dialect = None
    /\ header = None
    /\ template = <<>>
    /\ column_index = Unset
    /\ out_files = {}
    /\ disk = <<>>
    /\ opened = {}
    /\ closed = <<>>
    /\ header_writes = <<>>
    /\ error = NoError
    /\ first_run = no_first_run

\* The value argparse stores for --date-split: the default when the option
\* is absent, else type=bool applied to the option's text.
date_split_value(opt) == IF opt = None THEN TRUE ELSE bool(opt)

\* _parser.parse_args()
ParseArgs ==
    /\ pc = "Start"
    /\ args' = [column |-> argv.column, prefix |-> argv.prefix,
                dialect |-> argv.dialect,
                date_split |-> date_split_value(argv.date_split)]
    /\ pc' = "Uninitialized"
    /\ UNCHANGED first_run
    /\ UNCHANGED <<argv, input_file, pos, first_line, dialect, header,
                   template, column_index, out_files, disk, opened, closed,
                   header_writes, error>>

\* input_file.readline(): the next line, or the empty string at the end.
readline(file, p) == IF p < Len(file) THEN file[p + 1] ELSE <<>>

\* The run ends with exception e before a processor exists.
Abort(e) ==
    /\ error' = e
    /\ pc' = "Closed"

\* Reading the first line and settling the dialect.
DetectDialect ==
    /\ pc = "Uninitialized"
    /\ first_line' = readline(input_file, pos)
    /\ pos' = IF pos < Len(input_file) THEN pos + 1 ELSE pos
    /\ IF args.dialect = None
       THEN IF sniff(first_line').ok
            THEN /\ dialect' = sniff(first_line').dialect
                 /\ pc' = "DialectResolved"
                 /\ error' = error
            ELSE /\ dialect' = dialect
                 /\ Abort("csv.Error")
       ELSE /\ dialect' = excel
            /\ pc' = "DialectResolved"
            /\ error' = error
    /\ UNCHANGED first_run
    /\ UNCHANGED <<argv, input_file, args, header, template, column_index,
                   out_files, disk, opened, closed, header_writes>>

\* A first line judged not to be a header that is not given back: the file
\* stays where readline() left it.
position_without_seek(is_header, p) == p

\* The position of the input file once the header question is settled: where
\* readline() left it when the first line is the header, else
\* input_file.seek(0).
position_after_header(is_header, p) == IF is_header THEN p ELSE 0

\* Deciding whether the first line is a header; if it is not, the file is
\* rewound.
DetectHeader ==
    /\ pc = "DialectResolved"
    /\ LET h == has_header(first_line) IN
       IF ~h.ok
       THEN /\ Abort("csv.Error")
            /\ UNCHANGED <<header, pos>>
       ELSE /\ header' = IF h.value THEN first_line ELSE None
            /\ pos' = position_after_header(h.value, pos)
            /\ pc' = "HeaderResolved"
            /\ error' = error
    /\ UNCHANGED first_run
    /\ UNCHANGED <<argv, input_file, args, first_line, dialect, template,
                   column_index, out_files, disk, opened, closed,
                   header_writes>>

\* A resolution that tries the column ID as an integer before it looks for
\* it among the header fields.
resolve_column_number_first(header_fields, column_id) ==
    LET by_name == list_index(header_fields, column_id)
        by_number == int(column_id)
    IN IF by_number.ok THEN by_number ELSE by_name

\* The column index __init__ finds for a header: the position of the first
\* header field equal to the column ID, else the column ID as an integer,
\* else no index ("No header field matching ... found").
resolve_column(header_fields, column_id) ==
    LET by_name == list_index(header_fields, column_id)
        by_number == int(column_id)
    IN IF by_name.ok THEN by_name ELSE by_number

\* _EntryProcessor.__init__: the file name template, the reader, and the
\* column index when there is a header.
Construct ==
    /\ pc = "HeaderResolved"
    /\ template' = outfile_template(args.prefix)
    /\ out_files' = out_files
    /\ IF header = None
       THEN /\ column_index' = column_index
            /\ pc' = "Streaming"
            /\ error' = error
       ELSE LET parsed == reader_next(header, dialect)
                index == resolve_column(parsed.fields, args.column)
            IN
            IF parsed.kind = "hang"
            THEN /\ pc' = "Hung"
                 /\ UNCHANGED <<column_index, error>>
            ELSE IF parsed.kind = "error"
                 THEN /\ Abort("csv.Error")
                      /\ UNCHANGED column_index
            ELSE IF index.ok
                 THEN /\ column_index' = Assigned(index.value)
                      /\ pc' = "Streaming"
                      /\ error' = error
            ELSE /\ Abort("Exception: No header field matching")
                 /\ UNCHANGED column_index
    /\ UNCHANGED first_run
    /\ UNCHANGED <<argv, input_file, args, pos, first_line, dialect, header,
                   disk, opened, closed, header_writes>>

(***************************************************************************)
(* _EntryProcessor.process(entry), called by the main loop with the next   *)
(* line of the input file.                                                 *)
(***************************************************************************)

\* What process() computes before it touches a file: the exception it
\* raises, or the name of the entry's output file.
route(entry, d, index, date_split, tmpl) ==
    LET parsed == reader_next(entry, d)
        field == getitem(parsed.fields, index.value)
        name == format(tmpl, file_key_of(field.value, date_split))
    IN
    IF parsed.kind = "hang" THEN [kind |-> "hang", name |-> None]
    ELSE IF parsed.kind = "error" THEN [kind |-> "csv.Error", name |-> None]
    ELSE IF ~index.assigned THEN [kind |-> "AttributeError", name |-> None]
    ELSE IF ~field.ok THEN [kind |-> "IndexError", name |-> None]
    ELSE IF ~name.ok THEN [kind |-> "FormatError", name |-> None]
    ELSE [kind |-> "file", name |-> name.value]

\* A write that puts the text in front of what the file holds.
write_in_front(content, text) == <<text>> \o content

\* out_file.write(text) that succeeds.
write(content, text) == Append(content, text)

\* open(name, mode='a'): a file that exists keeps what it holds.
open_a(d, name) ==
    [f \in DOMAIN d \cup {name} |-> IF f \in DOMAIN d THEN d[f] ELSE <<>>]

\* open(name, mode='w') that succeeds: the file exists and is empty.
open_w(d, name) == [f \in DOMAIN d \cup {name} |-> IF f = name THEN <<>> ELSE d[f]]

\* A new file that gets its header but not the entry that opened it.
first_writes_without_entry(hdr, entry) ==
    IF hdr = None THEN <<>> ELSE write(<<>>, hdr)

\* A new file that gets its header after the entry that opened it.
first_writes_header_last(hdr, entry) ==
    IF hdr = None THEN write(<<>>, entry) ELSE write(write(<<>>, entry), hdr)

\* The texts process() writes to a file it has just opened.
first_writes(hdr, entry) ==
    IF hdr = None THEN write(<<>>, entry) ELSE write(write(<<>>, hdr), entry)

\* The next line of the input file, and the file position after it.
NextEntry == input_file[pos + 1]

Route == route(NextEntry, dialect, column_index, args.date_split, template)

Reading ==
    /\ pc = "Streaming"
    /\ pos < Len(input_file)
    /\ pos' = pos + 1

\* The exception e leaves process() and the with block.
Raise(e) ==
    /\ error' = e
    /\ pc' = "Exiting"

\* The reader never gets back to a record start: process() does not return.
ProcessHang ==
    /\ Reading
    /\ Route.kind = "hang"
    /\ pc' = "Hung"
    /\ UNCHANGED first_run
    /\ UNCHANGED <<argv, input_file, args, first_line, dialect, header,
                   template, column_index, out_files, disk, opened, closed,
                   header_writes, error>>

\* process() raises before it opens or writes any file.
ProcessRaise ==
    /\ Reading
    /\ Route.kind \in {"csv.Error", "AttributeError", "IndexError",
                       "FormatError"}
    /\ Raise(Route.kind)
    /\ UNCHANGED first_run
    /\ UNCHANGED <<argv, input_file, args, first_line, dialect, header,
                   template, column_index, out_files, disk, opened, closed,
                   header_writes>>

\* The entry's file is already in the dictionary: the entry is written to
\* it, unless the write fails.
ProcessOld ==
    /\ Reading
    /\ Route.kind = "file"
    /\ Route.name \in out_files
    /\ \E ok \in BOOLEAN :
        IF ok
        THEN /\ disk' = [disk EXCEPT ![Route.name] = write(@, NextEntry)]
             /\ UNCHANGED <<pc, error>>
        ELSE /\ disk' = disk
             /\ Raise("OSError")
    /\ UNCHANGED first_run
    /\ UNCHANGED <<argv, input_file, args, first_line, dialect, header,
                   template, column_index, out_files, opened, closed,
                   header_writes>>

\* The entry's file is not in the dictionary and open() fails: the finally
\* clause then reads out_file, which was never bound.
ProcessOpenFails ==
    /\ Reading
    /\ Route.kind = "file"
    /\ Route.name \notin out_files
    /\ Raise("UnboundLocalError")
    /\ UNCHANGED first_run
    /\ UNCHANGED <<argv, input_file, args, first_line, dialect, header,
                   template, column_index, out_files, disk, opened, closed,
                   header_writes>>

\* A dictionary that never takes a file in.
register_nothing(files, name) == files

\* self._out_files[output_file_name] = out_file
register_file(files, name) == files \cup {name}

\* The entry's file is opened, the header (if any) written, the file put in
\* the dictionary, and the entry written, unless that last write fails.
ProcessNew ==
    /\ Reading
    /\ Route.kind = "file"
    /\ Route.name \notin out_files
    /\ opened' = opened \cup {Route.name}
    /\ closed' = [f \in DOMAIN closed \cup {Route.name} |->
                    IF f = Route.name THEN 0 ELSE closed[f]]
    /\ header_writes' = [f \in DOMAIN header_writes \cup {Route.name} |->
                    IF f = Route.name
                    THEN Len(first_writes(header, NextEntry)) - 1
                    ELSE header_writes[f]]
    /\ out_files' = register_file(out_files, Route.name)
    /\ \E ok \in BOOLEAN :
        IF ok
        THEN /\ disk' = [open_w(disk, Route.name) EXCEPT
                            ![Route.name] = @ \o first_writes(header, NextEntry)]
             /\ UNCHANGED <<pc, error>>
        ELSE /\ disk' = [open_w(disk, Route.name) EXCEPT
                            ![Route.name] = IF header = None THEN @
                                            ELSE write(@, header)]
             /\ Raise("OSError")
    /\ UNCHANGED first_run
    /\ UNCHANGED <<argv, input_file, args, first_line, dialect, header,
                   template, column_index>>

\* The entry's file is opened and the write of the header fails: the file
\* is not put in the dictionary, and the finally clause still writes the
\* entry to it, which may fail as well.
ProcessHeaderWriteFails ==
    /\ Reading
    /\ Route.kind = "file"
    /\ Route.name \notin out_files
    /\ header # None
    /\ opened' = opened \cup {Route.name}
    /\ closed' = [f \in DOMAIN closed \cup {Route.name} |->
                    IF f = Route.name THEN 0 ELSE closed[f]]
    /\ header_writes' = [f \in DOMAIN header_writes \cup {Route.name} |->
                    IF f = Route.name THEN 0 ELSE header_writes[f]]
    /\ \E ok \in BOOLEAN :
        disk' = [open_w(disk, Route.name) EXCEPT
                    ![Route.name] = IF ok THEN write(@, NextEntry) ELSE @]
    /\ Raise("OSError")
    /\ UNCHANGED first_run
    /\ UNCHANGED <<argv, input_file, args, first_line, dialect, header,
                   template, column_index, out_files>>

\* _EntryProcessor.__exit__, at the end of the input or when process()
\* raised: every file of the dictionary is closed.
Exit ==
    /\ \/ pc = "Exiting"
       \/ pc = "Streaming" /\ pos >= Len(input_file)
    /\ closed' = [f \in DOMAIN closed |->
                    IF f \in out_files THEN closed[f] + 1 ELSE closed[f]]
    /\ pc' = "Closed"
    /\ UNCHANGED first_run
    /\ UNCHANGED <<argv, input_file, args, pos, first_line, dialect, header,
                   template, column_index, out_files, disk, opened,
                   header_writes, error>>

Next ==
    \/ ParseArgs
    \/ DetectDialect
    \/ DetectHeader
    \/ Construct
    \/ ProcessHang
    \/ ProcessRaise
    \/ ProcessOld
    \/ ProcessOpenFails
    \/ ProcessNew
    \/ ProcessHeaderWriteFails
    \/ Exit

Spec == Init /\ [][Next]_vars

TypeOK ==
    /\ pc \in {"Start", "Uninitialized", "DialectResolved", "HeaderResolved",
               "Streaming", "Exiting", "Closed", "Hung"}
    /\ pos \in 0..Len(input_file)
    /\ out_files \subseteq opened
    /\ opened \subseteq DOMAIN disk

(***************************************************************************)
(* What the input says each output file should hold.                       *)
(***************************************************************************)

\* A processor exists: __init__ returned.
Constructed == pc \in {"Streaming", "Exiting", "Hung"} \/
               (pc = "Closed" /\ Len(template) > 0)

\* The index in input_file of the first line given to process().
FirstRow == IF header = None THEN 1 ELSE 2

\* The rows of the input file.
Rows == FirstRow..Len(input_file)

\* Where process() sends line i of the input file.
RouteOf(i) == route(input_file[i], dialect, column_index, args.date_split,
                    template)

\* The field of line i that the column index selects, and the key derived
\* from it.
FieldOf(i) == getitem(reader_next(input_file[i], dialect).fields,
                      column_index.value).value
KeyOf(i) == file_key_of(FieldOf(i), args.date_split)

\* The lines from..to of the input file that process() sends to file f, in
\* the order of the input.
RECURSIVE RowsFor(_, _, _)
RowsFor(f, from, to) ==
    IF from > to THEN <<>>
    ELSE IF RouteOf(to).kind = "file" /\ RouteOf(to).name = f
         THEN Append(RowsFor(f, from, to - 1), input_file[to])
    ELSE RowsFor(f, from, to - 1)

\* The texts of file f after its header.
DataOf(f) == SubSeq(disk[f], header_writes[f] + 1, Len(disk[f]))

RECURSIVE SumLen(_)
SumLen(files) ==
    IF files = {} THEN 0
    ELSE LET f == CHOOSE g \in files : TRUE
         IN Len(DataOf(f)) + SumLen(files \ {f})

Succeeded == pc = "Closed" /\ error = NoError

\* C1: at the end of a successful run there is one output file per distinct
\* derived key, named after the key; each file holds, after its header,
\* exactly the rows whose key is the file's, and the files together hold as
\* many rows as the input has, so every row is in exactly one file.
PartitionAtSuccess ==
    Succeeded =>
        /\ \A i \in Rows : RouteOf(i).kind = "file"
        /\ DOMAIN disk = {format(template, KeyOf(i)).value : i \in Rows}
        /\ Cardinality(DOMAIN disk) = Cardinality({KeyOf(i) : i \in Rows})
        /\ \A f \in DOMAIN disk : DataOf(f) = RowsFor(f, FirstRow, Len(input_file))
        /\ SumLen(DOMAIN disk) = Cardinality(Rows)

\* A successful run that made two files from two rows.
PartitionAtSuccessWitness ==
    /\ Succeeded
    /\ Cardinality(Rows) = 2
    /\ Cardinality(DOMAIN disk) = 2

\* C2: in every state, each output file holds after its header the rows
\* sent to it so far, in the order of the input; when the run has failed,
\* the row that failed may be missing.
OrderPreserved ==
    \A f \in DOMAIN disk :
        \/ DataOf(f) = RowsFor(f, FirstRow, pos)
        \/ error # NoError /\ DataOf(f) = RowsFor(f, FirstRow, pos - 1)

\* A file that holds two different rows.
OrderPreservedWitness ==
    \E f \in DOMAIN disk :
        /\ Len(DataOf(f)) = 2
        /\ DataOf(f)[1] # DataOf(f)[2]
        /\ DataOf(f) = <<input_file[2], input_file[3]>>

\* C3 as stated, at the end of a successful run of an input with a header:
\* every output file starts with the header, written once, and holds no
\* second line equal to the header.
HeaderNeverRepeated ==
    (Succeeded /\ header # None) =>
        \A f \in DOMAIN disk :
            /\ header_writes[f] = 1
            /\ disk[f][1] = header
            /\ \A i \in 2..Len(disk[f]) : disk[f][i] # header

\* C3, amended: the header is written to a file at most once and before
\* anything else; every file of the dictionary starts with it; a later
\* line of a file equals the header only if it is a row of the input, sent
\* to that file, whose text is the header's.
HeaderPropagation ==
    (Constructed /\ header # None) =>
        \A f \in DOMAIN disk :
            /\ header_writes[f] <= 1
            /\ header_writes[f] = 1 => disk[f][1] = header
            /\ f \in out_files => header_writes[f] = 1
            /\ \A i \in 2..Len(disk[f]) :
                 disk[f][i] = header =>
                     \E j \in FirstRow..pos :
                         /\ input_file[j] = header
                         /\ RouteOf(j).kind = "file"
                         /\ RouteOf(j).name = f

\* A file of the dictionary holding its header and then a row with the
\* same text.
HeaderPropagationWitness ==
    /\ header # None
    /\ \E f \in out_files : Len(disk[f]) >= 2 /\ disk[f][2] = header

\* C4: when the run has ended, every file that was opened has been closed
\* exactly once.
AllClosedOnce ==
    pc = "Closed" => \A f \in opened : closed[f] = 1

\* The fields of the header, as __init__ parses them.
HeaderFields == reader_next(header, dialect).fields

\* A text that int() accepts and whose value is not negative.
IsNonNegativeInteger(text) == int(text).ok /\ int(text).value >= 0

\* C5: with a header, a column specifier that no header field equals and
\* that is not a non-negative integer ends the run with the error of the
\* column resolution, and no output file is ever created.
MissingColumnFails ==
    (/\ pc \in {"Streaming", "Exiting", "Closed", "Hung"}
     /\ header # None
     /\ ~list_index(HeaderFields, args.column).ok
     /\ ~IsNonNegativeInteger(args.column))
    => /\ error = "Exception: No header field matching"
       /\ pc = "Closed"
       /\ opened = {}

\* C6: without a header, a specifier that is the non-negative integer i is
\* resolved to column index i when the processor is made.
NoHeaderIndexResolved ==
    (/\ pc \in {"Streaming", "Exiting", "Hung"}
     /\ header = None
     /\ IsNonNegativeInteger(args.column))
    => column_index = Assigned(int(args.column).value)

\* No open() and no write() has failed.
NoFileError == error \notin {"OSError", "UnboundLocalError"}

\* C8: when the run is invoked with --date-split false, the name of every
\* output file is made from the selected field of a row, verbatim (in a
\* run where no file operation fails).
DateSplitFalseDisables ==
    (Constructed /\ NoFileError /\ argv.date_split = <<"f", "a", "l", "s", "e">>)
    => \A f \in DOMAIN disk :
          \E i \in FirstRow..pos : f = format(template, FieldOf(i)).value

\* The line ends inside a quoted field: the reader, having read it once, is
\* still in a quoted field.
EndsInsideQuotedField(line, d) ==
    parse_line(parse_reset, line, d).state = "IN_QUOTED_FIELD"

\* C9: once process() was given a line that ends inside a quoted field,
\* the run has failed with a parse error, and the output files hold exactly
\* the rows before that line (in a run where no file operation fails).
UnterminatedQuoteFails ==
    (/\ pc \in {"Streaming", "Exiting", "Closed", "Hung"}
     /\ NoFileError
     /\ pos >= FirstRow
     /\ EndsInsideQuotedField(input_file[pos], dialect))
    => /\ error = "csv.Error"
       /\ pc \in {"Exiting", "Closed"}
       /\ \A f \in DOMAIN disk : DataOf(f) = RowsFor(f, FirstRow, pos - 1)

(***************************************************************************)
(* Date bucketing: runs over inputs of a header and one row, whose only    *)
(* field is drawn from texts around the shape of an ISO date.              *)
(***************************************************************************)

Years == {<<"2", "0", "2", "1">>, <<"2", "0", "2", "x">>}
Separators == {"-", "/"}
MonthTens == {"0", "1", "2"}
MonthUnits == {"0", "1", "2", "3", "9"}
DayTens == {"0", "2", "3", "4"}
DayUnits == {"0", "1", "2", "9"}

DateTexts ==
    {y \o <<s1, m1, m2, s2, d1, d2>> :
        y \in Years, s1 \in Separators, m1 \in MonthTens, m2 \in MonthUnits,
        s2 \in Separators, d1 \in DayTens, d2 \in DayUnits}

\* Each date text whole, cut short, with a character in front, and with a
\* character behind.
DateFields ==
    UNION {{t, SubSeq(t, 1, 9), <<"x">> \o t, t \o <<"T">>} : t \in DateTexts}

InitDate ==
    /\ argv \in [column : {<<"k">>}, prefix : Prefixes, dialect : {None},
                 date_split : {None, <<>>}]
    /\ input_file \in {<<HeaderLine, field \o <<"\n">>>> : field \in DateFields}
    /\ pc = "Start"
    /\ args = None
    /\ pos = 0
    /\ first_line = <<>>
    /\ dialect = None
    /\ header = None
    /\ template = <<>>
    /\ column_index = Unset
    /\ out_files = {}
    /\ disk = <<>>
    /\ opened = {}
    /\ closed = <<>>
    /\ header_writes = <<>>
    /\ error = NoError
    /\ first_run = no_first_run

NextDate ==
    \/ ParseArgs
    \/ DetectDialect
    \/ DetectHeader
    \/ Construct
    \/ ProcessNew
    \/ Exit

SpecDate == InitDate /\ [][NextDate]_vars

\* The number two digits write.
TwoDigits(a, b) == DigitValue(a) * 10 + DigitValue(b)

\* The shape C7 names: four digits, '-', a month 01..12, '-', a day 01..31,
\* at the start of the text.
IsoDateShape(s) ==
    /\ Len(s) >= 10
    /\ \A i \in {1, 2, 3, 4, 6, 7, 9, 10} : s[i] \in Digits
    /\ s[5] = "-" /\ s[8] = "-"
    /\ TwoDigits(s[6], s[7]) \in 1..12
    /\ TwoDigits(s[9], s[10]) \in 1..31

\* The text of a line without its line end.
Chomp(line) == SubSeq(line, 1, Len(line) - 1)

CsvSuffix == <<".", "c", "s", "v">>

\* C7: with bucketing enabled, the row's file is named after "YYYY-MM" if
\* the field has the shape C7 names, and after the unchanged field if not.
DateBucketingByShape ==
    (pc = "Streaming" /\ pos = 2 /\ error = NoError /\ args.date_split)
    => LET field == Chomp(input_file[2])
           key == IF IsoDateShape(field) THEN SubSeq(field, 1, 7) ELSE field
       IN DOMAIN disk = {args.prefix \o key \o CsvSuffix}

(***************************************************************************)
(* Column resolution: runs over inputs that are a header alone, with       *)
(* fields drawn from names and decimal texts.                              *)
(***************************************************************************)

\* The number of fields of a header.
MaxFields == 3

FieldNames == {<<"k">>, <<"v">>, <<"0">>, <<"1">>}

\* The fields with commas between them, and a line end.
RECURSIVE JoinLine(_)
JoinLine(fields) ==
    IF Len(fields) = 1 THEN fields[1] \o <<"\n">>
    ELSE fields[1] \o <<",">> \o JoinLine(Tail(fields))

HeaderLists == UNION {[1..n -> FieldNames] : n \in 1..MaxFields}

InitResolve ==
    /\ argv \in [column : FieldNames \cup {<<"2">>}, prefix : Prefixes,
                 dialect : DialectOptions, date_split : {None}]
    /\ input_file \in {<<JoinLine(fields)>> : fields \in HeaderLists}
    /\ pc = "Start"
    /\ args = None
    /\ pos = 0
    /\ first_line = <<>>
    /\ dialect = None
    /\ header = None
    /\ template = <<>>
    /\ column_index = Unset
    /\ out_files = {}
    /\ disk = <<>>
    /\ opened = {}
    /\ closed = <<>>
    /\ header_writes = <<>>
    /\ error = NoError
    /\ first_run = no_first_run

NextResolve ==
    \/ ParseArgs
    \/ DetectDialect
    \/ DetectHeader
    \/ Construct
    \/ Exit

SpecResolve == InitResolve /\ [][NextResolve]_vars

DigitChar(n) ==
    CASE n = 0 -> "0" [] n = 1 -> "1" [] n = 2 -> "2" [] n = 3 -> "3"
      [] n = 4 -> "4" [] n = 5 -> "5" [] n = 6 -> "6" [] n = 7 -> "7"
      [] n = 8 -> "8" [] n = 9 -> "9"

\* str(i) of a non-negative integer: its decimal text.
RECURSIVE str(_)
str(i) == IF i < 10 THEN <<DigitChar(i)>>
          ELSE Append(str(i \div 10), DigitChar(i % 10))

\* The zero-based positions of the header's fields.
Positions == 0..(Len(HeaderFields) - 1)

\* C10 as stated: when the specifier is the name of the header field at
\* position i, the run resolves it to the index that the specifier str(i)
\* resolves to.
NameAndIndexAgree ==
    (pc = "Streaming" /\ header # None) =>
        \A i \in Positions :
            HeaderFields[i + 1] = args.column =>
                /\ resolve_column(HeaderFields, str(i)).ok
                /\ column_index.value = resolve_column(HeaderFields, str(i)).value

\* Position i is the first one that holds the text, if any position does.
FirstAt(text, i) ==
    \A j \in Positions : HeaderFields[j + 1] = text =>
        j >= i /\ HeaderFields[i + 1] = text

\* C10, amended: when the specifier is the name of the header field at
\* position i, i is the first position of that name, and no header field
\* equals str(i) unless the first such field is at position i, then the
\* specifier and str(i) both resolve to index i.
NameAndIndexAgreeWhenUnambiguous ==
    (pc = "Streaming" /\ header # None) =>
        \A i \in Positions :
            (/\ HeaderFields[i + 1] = args.column
             /\ FirstAt(args.column, i)
             /\ FirstAt(str(i), i))
            => /\ column_index = Assigned(i)
               /\ resolve_column(HeaderFields, str(i)) = [ok |-> TRUE, value |-> i]

\* A run that resolved a name of decimal shape, found after the first
\* position, in a header that also has an ordinary name.
NameAndIndexAgreeWitness ==
    /\ pc = "Streaming" /\ header # None
    /\ \E i \in Positions :
        /\ i >= 1
        /\ HeaderFields[i + 1] = args.column
        /\ int(args.column).ok
        /\ FirstAt(args.column, i)
        /\ FirstAt(str(i), i)
        /\ column_index = Assigned(i)

(***************************************************************************)
(* File naming: runs over prefixes with and without brace characters, on   *)
(* inputs of a header and rows that parse.                                 *)
(***************************************************************************)

BracePrefixes == {<<"o", "_">>, <<"{", "}">>, <<"{", "{">>, <<"}", "}">>,
                  <<"}">>, <<"a", "{">>, <<"{", "0", "}">>}

NameLines == {HeaderLine, Date15, Date20}

InitName ==
    /\ argv \in [column : {<<"k">>, <<"0">>}, prefix : BracePrefixes,
                 dialect : DialectOptions, date_split : {None, <<>>}]
    /\ input_file \in
          {<<HeaderLine>> \o rows :
              rows \in UNION {[1..n -> NameLines] : n \in 1..MaxRows}}
    /\ pc = "Start"
    /\ args = None
    /\ pos = 0
    /\ first_line = <<>>
    /\ dialect = None
    /\ header = None
    /\ template = <<>>
    /\ column_index = Unset
    /\ out_files = {}
    /\ disk = <<>>
    /\ opened = {}
    /\ closed = <<>>
    /\ header_writes = <<>>
    /\ error = NoError
    /\ first_run = no_first_run

NextName ==
    \/ ParseArgs
    \/ DetectDialect
    \/ DetectHeader
    \/ Construct
    \/ ProcessRaise
    \/ ProcessOld
    \/ ProcessNew
    \/ Exit

SpecName == InitName /\ [][NextName]_vars

\* C11: deriving a file name never fails, and every output file is named
\* prefix + key + ".csv" for the key of a row given to process(), with the
\* prefix as it was given on the command line.
LiteralPrefixNaming ==
    Constructed =>
        /\ error # "FormatError"
        /\ \A f \in DOMAIN disk :
              \E i \in FirstRow..pos : f = args.prefix \o KeyOf(i) \o CsvSuffix

(***************************************************************************)
(* The first line of the input.                                            *)
(***************************************************************************)

\* The header question is settled and the run has not ended before a
\* processor was made.
HeaderSettled == pc = "HeaderResolved" \/ Constructed

\* C12: the lines given to process() are the lines the main loop reads, one
\* after another, from the position the file has when the loop starts.  If
\* the first line was judged a header, it is stored as the header and the
\* loop starts after it, so it is never given to process(); if not, the loop
\* starts at the first line, which is so given to process() first, and once,
\* since the position only moves forward.
FirstLineOnce ==
    HeaderSettled =>
        /\ pos \in (FirstRow - 1)..Len(input_file)
        /\ (pc = "HeaderResolved" => pos = FirstRow - 1)
        /\ (header # None => header = input_file[1] /\ first_line = header)
        /\ \A f \in DOMAIN disk : \A i \in 1..Len(DataOf(f)) :
              \E j \in FirstRow..pos : DataOf(f)[i] = input_file[j]

\* The first line was judged not to be a header and was given to
\* process(), which is as far as the run got.
FirstLineOnceWitness ==
    /\ header = None
    /\ pc = "Exiting"
    /\ pos = 1
    /\ first_line = input_file[1]
    /\ Len(input_file) >= 2

(***************************************************************************)
(* Two runs: the program is started again, with the same command line and  *)
(* the same input, in the directory where the first run left its files.    *)
(***************************************************************************)

TwiceLines == {HeaderLine, Date15, Date20, BlankLF}

InitTwice ==
    /\ argv \in [column : {<<"k">>, <<"v">>}, prefix : Prefixes,
                 dialect : DialectOptions, date_split : {None, <<>>}]
    /\ input_file \in
          {<<HeaderLine>> \o rows :
              rows \in UNION {[1..n -> TwiceLines] : n \in 0..MaxRows}}
    /\ pc = "Start"
    /\ args = None
    /\ pos = 0
    /\ first_line = <<>>
    /\ dialect = None
    /\ header = None
    /\ template = <<>>
    /\ column_index = Unset
    /\ out_files = {}
    /\ disk = <<>>
    /\ opened = {}
    /\ closed = <<>>
    /\ header_writes = <<>>
    /\ error = NoError
    /\ first_run = no_first_run

\* The first run has ended, with no failure of a file operation; the second
\* run starts as the first did, but for the output files, which are those
\* the first run left.
RunAgain ==
    /\ pc = "Closed"
    /\ ~first_run.done
    /\ NoFileError
    /\ first_run' = [done |-> TRUE, disk |-> disk]
    /\ pc' = "Start"
    /\ args' = None
    /\ pos' = 0
    /\ first_line' = <<>>
    /\ dialect' = None
    /\ header' = None
    /\ template' = <<>>
    /\ column_index' = Unset
    /\ out_files' = {}
    /\ opened' = {}
    /\ closed' = <<>>
    /\ header_writes' = <<>>
    /\ error' = NoError
    /\ UNCHANGED <<argv, input_file, disk>>

NextTwice ==
    \/ ParseArgs
    \/ DetectDialect
    \/ DetectHeader
    \/ Construct
    \/ ProcessRaise
    \/ ProcessOld
    \/ ProcessNew
    \/ Exit
    \/ RunAgain

SpecTwice == InitTwice /\ [][NextTwice]_vars

\* C13: when the second of two identical runs has ended, the output files
\* are those the first run left, with the same contents (in runs where no
\* file operation fails).
SecondRunSame ==
    (first_run.done /\ pc = "Closed" /\ NoFileError) => disk = first_run.disk

\* The second run has ended after it wrote again, from its start, a file of
\* a header and two rows that the first run had left.
SecondRunSameWitness ==
    /\ first_run.done /\ pc = "Closed" /\ NoFileError
    /\ \E f \in opened :
        /\ f \in DOMAIN first_run.disk
        /\ Len(first_run.disk[f]) = 3
        /\ disk[f] = first_run.disk[f]

(***************************************************************************)
(* The --dialect option.                                                   *)
(***************************************************************************)

\* The run ended with the sniffer's error, before a processor was made.
DetectionFailed == pc = "Closed" /\ error = "csv.Error" /\ ~Constructed

\* C14: in a run with --dialect, the sniffer never fails on the first line,
\* and the dialect in use is the named one.
ExplicitDialectSkipsDetection ==
    argv.dialect # None =>
        /\ ~DetectionFailed
        /\ pc \in {"DialectResolved", "HeaderResolved", "Streaming", "Exiting",
                   "Hung"} => dialect = excel

(***************************************************************************)
(* Termination of the parse step.                                          *)
(***************************************************************************)

\* C15: the parse step of process() returns for every line given to it: no
\* line makes the reader take the same line from the adapter for ever, and
\* the run is never stuck inside next(self._csv_reader).
ParseAlwaysReturns ==
    /\ pc # "Hung"
    /\ Constructed =>
          \A i \in FirstRow..pos : reader_next(input_file[i], dialect).kind # "hang"

(***************************************************************************)
(* A row with too few fields.                                              *)
(***************************************************************************)

\* Line i of the input parses to a row that has no field at the resolved
\* column index.
TooFewFields(i) ==
    LET parsed == reader_next(input_file[i], dialect)
        n == Len(parsed.fields)
    IN /\ parsed.kind = "row"
       /\ column_index.assigned
       /\ IF column_index.value >= 0 THEN n <= column_index.value
                                     ELSE n < 0 - column_index.value

\* C16: a row with too few fields is the last line given to process(): the
\* run has failed on it with IndexError and reads no later line; no file
\* was opened or written for it, so the files are those of the rows before
\* it and hold exactly those rows.
ShortRowFailsFast ==
    Constructed =>
        \A i \in FirstRow..pos :
            TooFewFields(i) =>
                /\ i = pos
                /\ error = "IndexError"
                /\ pc \in {"Exiting", "Closed"}
                /\ DOMAIN disk = {RouteOf(j).name : j \in FirstRow..(pos - 1)}
                /\ \A f \in DOMAIN disk :
                      /\ DataOf(f) = RowsFor(f, FirstRow, pos - 1)
                      /\ Len(disk[f]) = header_writes[f] + Len(DataOf(f))

\* A run that ended on an empty line, after it wrote a row to a file.
ShortRowFailsFastWitness ==
    /\ pc = "Closed"
    /\ error = "IndexError"
    /\ pos = 3
    /\ TooFewFields(pos)
    /\ input_file[pos] = BlankLF
    /\ Cardinality(DOMAIN disk) = 1

(***************************************************************************)
(* The dictionary of open files.                                           *)
(***************************************************************************)

\* The names of the files of lines FirstRow..n of the input.
NamesUpTo(n) ==
    {RouteOf(i).name : i \in {j \in FirstRow..n : RouteOf(j).kind = "file"}}

\* The keys of lines FirstRow..n of the input.
KeysUpTo(n) ==
    {KeyOf(i) : i \in {j \in FirstRow..n : RouteOf(j).kind = "file"}}

\* C17: the dictionary has one file per distinct key among the rows
\* processed so far (when the run has failed, the row that failed may not
\* count), so that rows with different keys have files with different
\* names, and a file of the dictionary was opened once: it holds, after its
\* header, every row sent to it since the first, none was lost to a second
\* open, and no file is closed before the run has ended, nor more than once.
OnePartitionPerKey ==
    Constructed =>
        /\ \/ /\ out_files = NamesUpTo(pos)
              /\ Cardinality(out_files) = Cardinality(KeysUpTo(pos))
           \/ /\ error # NoError
              /\ out_files = NamesUpTo(pos - 1)
              /\ Cardinality(out_files) = Cardinality(KeysUpTo(pos - 1))
        /\ \A f \in out_files :
              /\ f \in opened
              /\ closed[f] <= 1
              /\ closed[f] = 1 => pc = "Closed"
              /\ \/ Len(DataOf(f)) = Len(RowsFor(f, FirstRow, pos))
                 \/ /\ error # NoError
                    /\ Len(DataOf(f)) = Len(RowsFor(f, FirstRow, pos - 1))

\* Two different rows with the same key went to one file, which holds both.
OnePartitionPerKeyWitness ==
    /\ pc = "Streaming"
    /\ pos = 3
    /\ input_file[2] # input_file[3]
    /\ KeyOf(2) = KeyOf(3)
    /\ \E f \in out_files : out_files = {f} /\ Len(DataOf(f)) = 2

(***************************************************************************)
(* The order of the start of a run.                                        *)
(***************************************************************************)

\* C18: once a processor is made the column index is resolved, and stays
\* as resolved; a specifier that was not resolved has ended the run before
\* any row was read and before any file was opened, so no run fails on a
\* row for want of a column index.
ResolvedBeforeFirstRow ==
    Constructed =>
        /\ error # "AttributeError"
        /\ IF column_index.assigned
           THEN header # None =>
                    column_index.value =
                        resolve_column(HeaderFields, args.column).value
           ELSE /\ pc = "Closed"
                /\ error = "Exception: No header field matching"
                /\ pos = FirstRow - 1
                /\ opened = {}

====
